---- MODULE Spec2Model ----
(***************************************************************************)
(* Model of the GetCityBikeData pipeline: auto_update_script.py (fetch,    *)
(* local write, publish through the hosting platform) and the module-level *)
(* script get_citybike_snapshots.py.  Successive runs of the scripts share *)
(* one working directory, one remote repository and one wall clock.        *)
(*                                                                         *)
(* Strings that the code builds by formatting are sequences of pieces      *)
(* (single characters for formatted time fields, whole literals for the    *)
(* fixed parts of an f-string); f-string concatenation is \o.  The content *)
(* of a file is the sequence of the texts written to it since it was last  *)
(* truncated.                                                              *)
(***************************************************************************)
EXTENDS Integers, Sequences, FiniteSets, TLC

(* ------------------------------ bounds -------------------------------- *)

\* Number of one-second ticks of the wall clock, besides the time that
\* passes while a run sleeps.
MaxTicks == 1

\* Number of failures of the local filesystem, of the platform or of the
\* transport to it in one behaviour (answers such as "not found" or
\* "already exists" are no failures and are not counted).
MaxFaults == 2

(* ------------------------- clock and time zone ------------------------ *)

\* The UTC instant (epoch seconds) at which the first run may start:
\* 2024-01-05 14:30:00 New York time.
StartInstants == {1704483000}

\* pytz 'America/New_York' in 2024: daylight time from 2024-03-10 07:00 UTC
\* to 2024-11-03 06:00 UTC.
DstStart2024 == 1710054000
DstEnd2024 == 1730613600
SecondsEST == 18000
SecondsEDT == 14400

\* No pause.
SleepSeconds_none == 0 * 60

\* time.sleep(60)
SleepSeconds == 60

UtcOffset(t) == IF DstStart2024 <= t /\ t < DstEnd2024 THEN SecondsEDT ELSE SecondsEST

\* Proleptic Gregorian date of a day number (days since 1970-01-01).
CivilFromDays(days) ==
    LET z   == days + 719468
        era == z \div 146097
        doe == z - era * 146097
        yoe == (doe - doe \div 1460 + doe \div 36524 - doe \div 146096) \div 365
        doy == doe - (365 * yoe + yoe \div 4 - yoe \div 100)
        mp  == (5 * doy + 2) \div 153
        d   == doy - (153 * mp + 2) \div 5 + 1
        m   == IF mp < 10 THEN mp + 3 ELSE mp - 9
        y   == yoe + era * 400 + (IF m <= 2 THEN 1 ELSE 0)
    IN  [Y |-> y, m |-> m, d |-> d]

\* datetime.now(ny_tz): the wall-clock fields of instant t in New York.
NowNY(t) ==
    LET l   == t - UtcOffset(t)
        sod == l % 86400
        c   == CivilFromDays(l \div 86400)
    IN  [Y |-> c.Y, m |-> c.m, d |-> c.d,
         H |-> sod \div 3600, M |-> (sod % 3600) \div 60, S |-> sod % 60]

DigitChars == <<"0", "1", "2", "3", "4", "5", "6", "7", "8", "9">>
Digit(n) == DigitChars[n + 1]

\* Zero-padded decimal of n on w digits, as a sequence of characters.
RECURSIVE Pad(_, _)
Pad(n, w) == IF w = 0 THEN <<>> ELSE Pad(n \div 10, w - 1) \o <<Digit(n % 10)>>

\* One strftime directive, or a literal character.
Directive(dt, d) ==
    CASE d = "%Y" -> Pad(dt.Y, 4)
      [] d = "%m" -> Pad(dt.m, 2)
      [] d = "%d" -> Pad(dt.d, 2)
      [] d = "%H" -> Pad(dt.H, 2)
      [] d = "%M" -> Pad(dt.M, 2)
      [] d = "%S" -> Pad(dt.S, 2)
      [] OTHER    -> <<d>>

\* datetime.strftime with the format given as its sequence of directives
\* and literal characters.
RECURSIVE Strftime(_, _)
Strftime(dt, fmt) ==
    IF fmt = <<>> THEN <<>> ELSE Directive(dt, Head(fmt)) \o Strftime(dt, Tail(fmt))

FmtBranch_minutes == <<"%Y", "%m", "%d", "_", "%H", "%M">>
FmtBranch == <<"%Y", "%m", "%d", "_", "%H", "%M", "%S">>
FmtFolder == <<"%Y", "-", "%m", "-", "%d">>
FmtFile   == <<"%Y", "-", "%m", "-", "%d", "_", "%H", "-", "%M", "-", "%S">>
FmtSnapDate == <<"%d", "-", "%m", "-", "%Y">>
FmtSnapHour == <<"%H">>

(* ------------------------------- paths -------------------------------- *)

Cwd == <<"cwd">>

\* os.path.join(a, b) for a relative b.
PathJoin(a, b) == a \o <<"/">> \o b

\* Index of the last "/" of p, 0 if none.
LastSlash(p) ==
    LET S == {i \in 1..Len(p) : p[i] = "/"}
    IN  IF S = {} THEN 0 ELSE CHOOSE i \in S : \A j \in S : j <= i

\* os.path.basename(p)
Basename(p) == SubSeq(p, LastSlash(p) + 1, Len(p))

\* os.path.dirname(p)
Dirname(p) == SubSeq(p, 1, LastSlash(p) - 1)

IsPrefix(a, b) == Len(a) <= Len(b) /\ SubSeq(b, 1, Len(a)) = a

(* --------------------------- program values --------------------------- *)

\* The processes that run a script; the claims relate at most two runs.
Runs == {1, 2}

\* os.environ.get("GITHUB_TOKEN"): unset (None), empty, or a credential.
TokenValues == {"None", "", "ghp_token"}

\* Bodies the data source may answer with.
Bodies == {"{\"data\":[\"x\"]}", "{\"data\":[\"y\"]}"}

\* HTTP status codes the data source may answer with.
StatusCodes == {200, 500}

\* HTTP status codes the platform may answer the auto-merge request with.
MergeStatusCodes == {202, 404}

RaisesForStatus_never(status) == FALSE

\* response.raise_for_status(): raises for a 4xx or 5xx status.
RaisesForStatus(status) == 400 <= status /\ status < 600

\* str(data): Python's repr of a parsed document, the document given by its
\* JSON text.
PyStr(json) ==
    CASE json = "{\"data\":[\"x\"]}" -> "{'data': ['x']}"
      [] json = "{\"data\":[\"y\"]}" -> "{'data': ['y']}"
      [] json = "{}" -> "{}"

DefaultBranch == <<"main">>
AutoMergeLabel == "auto-merge"
GitKeep == <<".gitkeep">>

\* A tree: the files of a commit, path |-> content.
EmptyTree == [p \in {} |-> <<>>]
InitialTree == (<<"README.md">> :> <<"readme">>)

\* The blob identifier of a file's content (content-addressed).
Sha(content) == <<"blob", content>>
NoSha == <<>>

\* repo.get_contents(path, ref): the path is a file of the tree, or a folder
\* holding one.
InTree(tree, path) ==
    \/ path \in DOMAIN tree
    \/ \E q \in DOMAIN tree : IsPrefix(path \o <<"/">>, q)

(* ------------------------------- state -------------------------------- *)

VARIABLES
    clock,      \* the wall clock, UTC epoch seconds
    ticks,      \* number of one-second ticks taken
    faults,     \* number of failures so far
    dirs,       \* local filesystem: the directories
    files,      \* local filesystem: path |-> content
    branches,   \* remote repository: branch name |-> tree at its tip
    pulls,      \* remote repository: the pull requests, by number
    pc,         \* each run's position in its script
    loc,        \* each run's local variables
    trace,      \* each run's calls on the filesystem, the source and the platform
    exit_code   \* each run's process exit code, -1 while it has not exited

vars == <<clock, ticks, faults, dirs, files, branches, pulls, pc, loc, trace, exit_code>>

NoLocals ==
    [script |-> "none", token |-> "None", now |-> 0,
     folder_name |-> <<>>, file_name |-> <<>>, output_path |-> <<>>,
     text |-> "", ret_fetch |-> "unset", ret_publish |-> "unset",
     default_branch |-> <<>>, pub_now |-> 0, current_time |-> <<>>,
     new_branch_name |-> <<>>, source_sha |-> EmptyTree, content |-> <<>>,
     repo_folder_path |-> <<>>, repo_file_path |-> <<>>,
     contents_path |-> <<>>, contents_sha |-> NoSha, pr |-> 0, wake |-> 0]

Init ==
    /\ clock \in StartInstants
    /\ ticks = 0
    /\ faults = 0
    /\ dirs = {Cwd}
    /\ files = EmptyTree
    /\ branches = (DefaultBranch :> InitialTree)
    /\ pulls = <<>>
    /\ pc = [r \in Runs |-> "init"]
    /\ loc = [r \in Runs |-> NoLocals]
    /\ trace = [r \in Runs |-> <<>>]
    /\ exit_code = [r \in Runs |-> -1]

(* ------------------------------ helpers ------------------------------- *)

\* A call as recorded in a run's trace.  status is the HTTP status of a
\* direct request (0: none, or a transport error).
HttpCall(op, branch, path, sha, status, ok) ==
    [op |-> op, branch |-> branch, path |-> path, sha |-> sha,
     status |-> status, ok |-> ok]

Call(op, branch, path, sha, ok) == HttpCall(op, branch, path, sha, 0, ok)

\* The status a call on the platform is answered with: 500 stands for any
\* failure of the platform or of the transport, refused for the status of a
\* request the platform refuses, done for the status of one it performs.
Answer(fault, accepted, done, refused) ==
    IF fault THEN 500 ELSE IF accepted THEN done ELSE refused

Success(status) == 200 <= status /\ status < 300

\* A call on the platform; the client library raises unless it succeeded.
RemoteCall(op, branch, path, sha, status) ==
    HttpCall(op, branch, path, sha, status, Success(status))

Log(r, c) == trace' = [trace EXCEPT ![r] = Append(@, c)]

Goto(r, label) == pc' = [pc EXCEPT ![r] = label]

\* sys.exit(code), or the interpreter ending (code 0) or dying of an
\* uncaught exception (code 1).
Exit(r, code) ==
    /\ pc' = [pc EXCEPT ![r] = "exited"]
    /\ exit_code' = [exit_code EXCEPT ![r] = code]

\* os.makedirs(path, exist_ok=True): the directory and its missing ancestors.
RECURSIVE Ancestors(_)
Ancestors(path) ==
    IF LastSlash(path) = 0 THEN {path} ELSE {path} \cup Ancestors(Dirname(path))

MakeDirs(ds, path) == ds \cup Ancestors(path)

\* open(path, 'w') alone: the file exists and is empty.
Truncate(fs, path) ==
    IF path \in DOMAIN fs THEN [fs EXCEPT ![path] = <<>>] ELSE fs @@ (path :> <<>>)

OpenWrite_append(fs, path, text) ==
    IF path \in DOMAIN fs THEN [fs EXCEPT ![path] = Append(@, text)]
    ELSE fs @@ (path :> <<text>>)

\* open(path, 'w') followed by f.write(text): the file holds text alone.
OpenWrite(fs, path, text) ==
    LET t == Truncate(fs, path) IN [t EXCEPT ![path] = Append(@, text)]

\* The scheduler starts one run at a time: a run starts once the runs
\* before it have exited.
MayStart(r) == \A q \in Runs : q < r => pc[q] = "exited"

\* The documents the source can answer with now.  The documents are
\* interchangeable, so the first one served is named {"data":["x"]}; a later
\* answer is the same document or another one.
FirstBody == "{\"data\":[\"x\"]}"
Served == {loc[r].text : r \in Runs} \cap Bodies
BodiesNow == IF Served = {} THEN {FirstBody} ELSE Bodies

\* Whether the call being made fails: it may, while failures remain.
Faults == IF faults < MaxFaults THEN BOOLEAN ELSE {FALSE}
Inject(fault) == faults' = IF fault THEN faults + 1 ELSE faults

UNCHANGED_local == UNCHANGED <<dirs, files>>
UNCHANGED_remote == UNCHANGED <<branches, pulls>>
UNCHANGED_clock == UNCHANGED <<clock, ticks>>

(* ------------------- auto_update_script.py: main ---------------------- *)

\* A process starts auto_update_script.py.  main reads the credential and
\* exits 1 without it; otherwise it reads the clock once and derives the
\* folder name and the file name from that reading.
main_begin(r) ==
    /\ pc[r] = "init"
    /\ MayStart(r)
    /\ \E token \in TokenValues :
        IF token \in {"None", ""}
        THEN /\ loc' = [loc EXCEPT ![r].script = "auto", ![r].token = token]
             /\ Exit(r, 1)
        ELSE LET now == NowNY(clock)
                 folder_name == Strftime(now, FmtFolder)
                 file_name == <<"Station-Status_">> \o Strftime(now, FmtFile) \o <<".json">>
             IN  /\ loc' = [loc EXCEPT ![r].script = "auto", ![r].token = token,
                                       ![r].now = clock,
                                       ![r].folder_name = folder_name,
                                       ![r].file_name = file_name]
                 /\ Goto(r, "makedirs")
                 /\ UNCHANGED exit_code
    /\ UNCHANGED <<trace>>
    /\ UNCHANGED_local /\ UNCHANGED_remote /\ UNCHANGED_clock
    /\ UNCHANGED faults

\* main after fetch_citybike_data returned None: sys.exit(1).
FetchFailed(r) ==
    /\ loc' = [loc EXCEPT ![r].ret_fetch = "None"]
    /\ Exit(r, 1)

\* fetch_citybike_data, os.makedirs(output_folder, exist_ok=True).
fetch_makedirs(r) ==
    /\ pc[r] = "makedirs"
    /\ LET output_folder == PathJoin(Cwd, loc[r].folder_name)
       IN  \E fault \in Faults :
            LET ok == ~fault IN
            /\ Log(r, Call("makedirs", <<>>, output_folder, NoSha, ok))
            /\ Inject(fault)
            /\ IF ok
               THEN /\ dirs' = MakeDirs(dirs, output_folder)
                    /\ loc' = [loc EXCEPT ![r].output_path =
                                   PathJoin(output_folder, loc[r].file_name)]
                    /\ Goto(r, "get")
                    /\ UNCHANGED exit_code
               ELSE /\ FetchFailed(r)
                    /\ UNCHANGED dirs
    /\ UNCHANGED files
    /\ UNCHANGED_remote /\ UNCHANGED_clock

\* fetch_citybike_data, requests.get(api_url) and raise_for_status(): a
\* transport error (status 0 here) or an error status raises.
fetch_get(r) ==
    /\ pc[r] = "get"
    /\ \E status \in StatusCodes \cup {0}, body \in BodiesNow :
        LET ok == status # 0 /\ ~RaisesForStatus(status)
        IN  /\ Log(r, HttpCall("requests.get", <<>>, <<>>, NoSha, status, ok))
            /\ IF ok
               THEN /\ loc' = [loc EXCEPT ![r].text = body]
                    /\ Goto(r, "write")
                    /\ UNCHANGED exit_code
               ELSE FetchFailed(r)
    /\ UNCHANGED_local /\ UNCHANGED_remote /\ UNCHANGED_clock
    /\ UNCHANGED faults

\* fetch_citybike_data, open(output_path, 'w') and f.write(response.text).
\* A failure leaves the file untouched (open failed) or empty (write failed).
fetch_write(r) ==
    /\ pc[r] = "write"
    /\ \E fault \in Faults, opened \in BOOLEAN :
        LET ok == ~fault IN
        /\ ok => opened
        /\ Log(r, Call("write", <<>>, loc[r].output_path, NoSha, ok))
        /\ Inject(fault)
        /\ files' = IF ok THEN OpenWrite(files, loc[r].output_path, loc[r].text)
                    ELSE IF opened THEN Truncate(files, loc[r].output_path)
                    ELSE files
        /\ IF ok
           THEN /\ loc' = [loc EXCEPT ![r].ret_fetch = "path"]
                /\ Goto(r, "get_repo")
                /\ UNCHANGED exit_code
           ELSE FetchFailed(r)
    /\ UNCHANGED dirs
    /\ UNCHANGED_remote /\ UNCHANGED_clock

(* ------------- auto_update_script.py: create_branch_and_pr ------------ *)

MainExitCode_ignored(ret) == 0

\* main after create_branch_and_pr returned: sys.exit(1) on a false result,
\* else the final print and the end of the process.
MainExitCode(ret) == IF ret = "False" THEN 1 ELSE 0

PublishReturns(r, ret) ==
    /\ loc' = [loc EXCEPT ![r].ret_publish = ret]
    /\ Exit(r, MainExitCode(ret))

\* The outer handler of create_branch_and_pr: return False.
PublishFailed(r) == PublishReturns(r, "False")

\* The tree of a branch after a commit that puts content at path.
PutFile(tree, path, content) ==
    IF path \in DOMAIN tree THEN [tree EXCEPT ![path] = content]
    ELSE tree @@ (path :> content)

RefAccepted_always(refs, name) == TRUE

\* The platform creates a reference only under a name that is free.
RefAccepted(refs, name) == name \notin DOMAIN refs

TargetBranch_default(r) == loc[r].default_branch

\* branch=new_branch_name: the branch every content call of the publisher
\* is made on.
TargetBranch(r) == loc[r].new_branch_name

\* The platform accepts a file creation only where no file is.
CreateAccepted(tree, path) == path \notin DOMAIN tree

\* The platform accepts a file update only with the file's current blob id.
UpdateAccepted(tree, path, sha) == path \in DOMAIN tree /\ Sha(tree[path]) = sha

\* g.get_repo(repo_name) and repo.default_branch, then the publisher's own
\* reading of the clock, from which it names the branch.
publish_get_repo(r) ==
    /\ pc[r] = "get_repo"
    /\ \E fault \in Faults :
        LET status == Answer(fault, TRUE, 200, 404)
            ok == Success(status)
        IN
        /\ Log(r, RemoteCall("get_repo", <<>>, <<>>, NoSha, status))
        /\ Inject(fault)
        /\ IF ok
           THEN LET current_time == Strftime(NowNY(clock), FmtBranch)
                IN  /\ loc' = [loc EXCEPT ![r].default_branch = DefaultBranch,
                                          ![r].pub_now = clock,
                                          ![r].current_time = current_time,
                                          ![r].new_branch_name =
                                              <<"data-update-">> \o current_time]
                    /\ Goto(r, "get_git_ref")
                    /\ UNCHANGED exit_code
           ELSE PublishFailed(r)
    /\ UNCHANGED_local /\ UNCHANGED_remote /\ UNCHANGED_clock

\* repo.get_git_ref("heads/<default>"): the tip of the default branch.
publish_get_git_ref(r) ==
    /\ pc[r] = "get_git_ref"
    /\ \E fault \in Faults :
        LET status == Answer(fault, loc[r].default_branch \in DOMAIN branches, 200, 404)
            ok == Success(status)
        IN
        /\ Log(r, RemoteCall("get_git_ref", loc[r].default_branch, <<>>, NoSha, status))
        /\ Inject(fault)
        /\ IF ok
           THEN /\ loc' = [loc EXCEPT ![r].source_sha = branches[loc[r].default_branch]]
                /\ Goto(r, "create_git_ref")
                /\ UNCHANGED exit_code
           ELSE PublishFailed(r)
    /\ UNCHANGED_local /\ UNCHANGED_remote /\ UNCHANGED_clock

\* repo.create_git_ref("refs/heads/<new>", source_sha): refused when the
\* reference exists.
publish_create_git_ref(r) ==
    /\ pc[r] = "create_git_ref"
    /\ \E fault \in Faults :
        LET name == loc[r].new_branch_name
            status == Answer(fault, RefAccepted(branches, name), 201, 422)
            ok == Success(status)
        IN  /\ Log(r, RemoteCall("create_git_ref", name, <<>>, NoSha, status))
            /\ Inject(fault)
            /\ IF ok
               THEN /\ branches' = branches @@ (name :> loc[r].source_sha)
                    /\ Goto(r, "read_local")
                    /\ UNCHANGED <<loc, exit_code>>
               ELSE /\ PublishFailed(r)
                    /\ UNCHANGED branches
    /\ UNCHANGED pulls
    /\ UNCHANGED_local /\ UNCHANGED_clock

\* open(file_path, 'r') and file.read(); the remote folder and file paths.
publish_read_local(r) ==
    /\ pc[r] = "read_local"
    /\ LET file_path == loc[r].output_path
           folder_path == loc[r].folder_name
           repo_folder_path == Basename(folder_path)
           file_name == Basename(file_path)
       IN  IF file_path \in DOMAIN files
           THEN /\ loc' = [loc EXCEPT ![r].content = files[file_path],
                                      ![r].repo_folder_path = repo_folder_path,
                                      ![r].repo_file_path =
                                          repo_folder_path \o <<"/">> \o file_name]
                /\ Goto(r, "get_folder")
                /\ UNCHANGED exit_code
           ELSE PublishFailed(r)
    /\ UNCHANGED trace
    /\ UNCHANGED_local /\ UNCHANGED_remote /\ UNCHANGED_clock
    /\ UNCHANGED faults

\* repo.get_contents(repo_folder_path, ref=new_branch_name) in its own try:
\* any exception leads to the placeholder creation.
publish_get_folder(r) ==
    /\ pc[r] = "get_folder"
    /\ \E fault \in Faults :
        LET b == loc[r].new_branch_name
            status == Answer(fault, InTree(branches[b], loc[r].repo_folder_path), 200, 404)
            ok == Success(status)
        IN  /\ Log(r, RemoteCall("get_contents", b, loc[r].repo_folder_path, NoSha, status))
            /\ Inject(fault)
            /\ Goto(r, IF ok THEN "get_file" ELSE "create_gitkeep")
    /\ UNCHANGED <<loc, exit_code>>
    /\ UNCHANGED_local /\ UNCHANGED_remote /\ UNCHANGED_clock

\* repo.create_file("<folder>/.gitkeep", ..., "", branch=new_branch_name)
publish_create_gitkeep(r) ==
    /\ pc[r] = "create_gitkeep"
    /\ \E fault \in Faults :
        LET b == TargetBranch(r)
            path == loc[r].repo_folder_path \o <<"/">> \o GitKeep
            status == Answer(fault, CreateAccepted(branches[b], path), 201, 422)
            ok == Success(status)
        IN  /\ Log(r, RemoteCall("create_file", b, path, NoSha, status))
            /\ Inject(fault)
            /\ IF ok
               THEN /\ branches' = [branches EXCEPT ![b] = PutFile(@, path, <<>>)]
                    /\ Goto(r, "get_file")
                    /\ UNCHANGED <<loc, exit_code>>
               ELSE /\ PublishFailed(r)
                    /\ UNCHANGED branches
    /\ UNCHANGED pulls
    /\ UNCHANGED_local /\ UNCHANGED_clock

\* contents = repo.get_contents(repo_file_path, ref=new_branch_name), first
\* statement of the second try: any exception leads to the file creation.
publish_get_file(r) ==
    /\ pc[r] = "get_file"
    /\ \E fault \in Faults :
        LET b == loc[r].new_branch_name
            path == loc[r].repo_file_path
            status == Answer(fault, path \in DOMAIN branches[b], 200, 404)
            ok == Success(status)
        IN  /\ Log(r, RemoteCall("get_contents", b, path, NoSha, status))
            /\ Inject(fault)
            /\ IF ok
               THEN /\ loc' = [loc EXCEPT ![r].contents_path = path,
                                          ![r].contents_sha = Sha(branches[b][path])]
                    /\ Goto(r, "update_file")
               ELSE /\ Goto(r, "create_file")
                    /\ UNCHANGED loc
    /\ UNCHANGED exit_code
    /\ UNCHANGED_local /\ UNCHANGED_remote /\ UNCHANGED_clock

\* Where the second try goes after repo.update_file: on, or into its handler.
AfterUpdate(ok) == IF ok THEN "create_pull" ELSE "create_file"

\* repo.update_file(contents.path, ..., content, contents.sha, branch=...),
\* second statement of the second try.
publish_update_file(r) ==
    /\ pc[r] = "update_file"
    /\ \E fault \in Faults :
        LET b == TargetBranch(r)
            path == loc[r].contents_path
            status == Answer(fault, UpdateAccepted(branches[b], path, loc[r].contents_sha), 200, 409)
            ok == Success(status)
        IN  /\ Log(r, RemoteCall("update_file", b, path, loc[r].contents_sha, status))
            /\ Inject(fault)
            /\ branches' = IF ok THEN [branches EXCEPT ![b] = PutFile(@, path, loc[r].content)]
                           ELSE branches
            /\ Goto(r, AfterUpdate(ok))
    /\ UNCHANGED <<loc, exit_code, pulls>>
    /\ UNCHANGED_local /\ UNCHANGED_clock

\* repo.create_file(repo_file_path, ..., content, branch=new_branch_name),
\* the handler of the second try.
publish_create_file(r) ==
    /\ pc[r] = "create_file"
    /\ \E fault \in Faults :
        LET b == TargetBranch(r)
            path == loc[r].repo_file_path
            status == Answer(fault, CreateAccepted(branches[b], path), 201, 422)
            ok == Success(status)
        IN  /\ Log(r, RemoteCall("create_file", b, path, NoSha, status))
            /\ Inject(fault)
            /\ IF ok
               THEN /\ branches' = [branches EXCEPT ![b] = PutFile(@, path, loc[r].content)]
                    /\ Goto(r, "create_pull")
                    /\ UNCHANGED <<loc, exit_code>>
               ELSE /\ PublishFailed(r)
                    /\ UNCHANGED branches
    /\ UNCHANGED pulls
    /\ UNCHANGED_local /\ UNCHANGED_clock

\* repo.create_pull(title, body, head=new_branch_name, base=default_branch)
publish_create_pull(r) ==
    /\ pc[r] = "create_pull"
    /\ \E fault \in Faults :
        LET status == Answer(fault, TRUE, 201, 422)
            ok == Success(status)
        IN
        /\ Log(r, RemoteCall("create_pull", loc[r].new_branch_name, <<>>, NoSha, status))
        /\ Inject(fault)
        /\ IF ok
           THEN /\ pulls' = Append(pulls, [head |-> loc[r].new_branch_name,
                                           base |-> loc[r].default_branch,
                                           state |-> "open", labels |-> {},
                                           auto_merge |-> FALSE])
                /\ loc' = [loc EXCEPT ![r].pr = Len(pulls) + 1]
                /\ Goto(r, "add_to_labels")
                /\ UNCHANGED exit_code
           ELSE /\ PublishFailed(r)
                /\ UNCHANGED pulls
    /\ UNCHANGED branches
    /\ UNCHANGED_local /\ UNCHANGED_clock

\* pr.add_to_labels("auto-merge"), then time.sleep(60) begins.
publish_add_to_labels(r) ==
    /\ pc[r] = "add_to_labels"
    /\ \E fault \in Faults :
        LET status == Answer(fault, TRUE, 200, 404)
            ok == Success(status)
        IN
        /\ Log(r, RemoteCall("add_to_labels", loc[r].new_branch_name, <<>>, NoSha, status))
        /\ Inject(fault)
        /\ IF ok
           THEN /\ pulls' = [pulls EXCEPT ![loc[r].pr].labels = @ \cup {AutoMergeLabel}]
                /\ loc' = [loc EXCEPT ![r].wake = clock + SleepSeconds]
                /\ Goto(r, "sleep")
                /\ UNCHANGED exit_code
           ELSE /\ PublishFailed(r)
                /\ UNCHANGED pulls
    /\ UNCHANGED branches
    /\ UNCHANGED_local /\ UNCHANGED_clock

ReturnAfterAutoMerge_fatal(accepted) == IF accepted THEN "True" ELSE "False"

\* What create_branch_and_pr returns after the auto-merge request, whether
\* the request was accepted or not.
ReturnAfterAutoMerge(accepted) == "True"

\* Once the sleep is over: requests.put(<pull>/auto_merge, squash) in its own
\* try.  Status 0 stands for a transport exception.  Then return True.
publish_auto_merge(r) ==
    /\ pc[r] = "sleep"
    /\ clock >= loc[r].wake
    /\ \E status \in MergeStatusCodes \cup {0} :
        LET n == loc[r].pr
            accepted == status \in {200, 202}
        IN  /\ accepted => pulls[n].state = "open"
            /\ Log(r, HttpCall("put_auto_merge", loc[r].new_branch_name, <<>>, NoSha, status, accepted))
            /\ pulls' = IF accepted THEN [pulls EXCEPT ![n].auto_merge = TRUE] ELSE pulls
            /\ PublishReturns(r, ReturnAfterAutoMerge(accepted))
    /\ UNCHANGED branches
    /\ UNCHANGED_local /\ UNCHANGED_clock
    /\ UNCHANGED faults

(* --------------------- get_citybike_snapshots.py ---------------------- *)

\* Formats of the module-level script.
SnapFolder(t) == Strftime(NowNY(t), FmtSnapDate)
SnapFile(t) ==
    SnapFolder(t) \o <<"/">> \o SnapFolder(t) \o <<"_Hour-">>
        \o Strftime(NowNY(t), FmtSnapHour) \o <<".txt">>

\* A process starts get_citybike_snapshots.py: requests.get,
\* raise_for_status and response.json() in one try whose handler, for a
\* RequestException, leaves data = {}; then the clock is read.  data is kept
\* as the JSON text of the parsed document.  A body that
\* is no JSON document raises an error that, depending on the version of
\* requests, is a RequestException or is not caught and ends the process.
snap_get(r) ==
    /\ pc[r] = "init"
    /\ MayStart(r)
    /\ \E status \in StatusCodes \cup {0}, body \in BodiesNow \cup {"<html>"}, caught \in BOOLEAN :
        LET failed == status = 0 \/ RaisesForStatus(status)
            parsed == body \in Bodies
        IN  /\ Log(r, HttpCall("requests.get", <<>>, <<>>, NoSha, status, ~failed))
            /\ IF ~failed /\ ~parsed /\ ~caught
               THEN /\ loc' = [loc EXCEPT ![r].script = "snap"]
                    /\ Exit(r, 1)
               ELSE /\ loc' = [loc EXCEPT ![r].script = "snap",
                                          ![r].now = clock,
                                          ![r].text = IF failed \/ ~parsed THEN "{}" ELSE body,
                                          ![r].folder_name = SnapFolder(clock),
                                          ![r].output_path = PathJoin(Cwd, SnapFile(clock))]
                    /\ Goto(r, "snap_exists")
                    /\ UNCHANGED exit_code
    /\ UNCHANGED_local /\ UNCHANGED_remote /\ UNCHANGED_clock
    /\ UNCHANGED faults

\* if not os.path.exists(folder_name)
snap_exists(r) ==
    /\ pc[r] = "snap_exists"
    /\ Goto(r, IF PathJoin(Cwd, loc[r].folder_name) \in dirs THEN "snap_write" ELSE "snap_makedirs")
    /\ UNCHANGED <<loc, trace, exit_code>>
    /\ UNCHANGED_local /\ UNCHANGED_remote /\ UNCHANGED_clock
    /\ UNCHANGED faults

\* os.makedirs(folder_name), which raises if the directory exists by now;
\* nothing catches it.
snap_makedirs(r) ==
    /\ pc[r] = "snap_makedirs"
    /\ LET folder == PathJoin(Cwd, loc[r].folder_name)
       IN  \E fault \in Faults :
            LET ok == ~fault /\ folder \notin dirs
            IN  /\ Log(r, Call("makedirs", <<>>, folder, NoSha, ok))
                /\ Inject(fault)
                /\ IF ok
                   THEN /\ dirs' = MakeDirs(dirs, folder)
                        /\ Goto(r, "snap_write")
                        /\ UNCHANGED exit_code
                   ELSE /\ Exit(r, 1)
                        /\ UNCHANGED dirs
    /\ UNCHANGED <<loc, files>>
    /\ UNCHANGED_remote /\ UNCHANGED_clock

\* open(file_name, "w") and file.write(str(data)), then the script ends.
snap_write(r) ==
    /\ pc[r] = "snap_write"
    /\ \E fault \in Faults, opened \in BOOLEAN :
        LET ok == ~fault IN
        /\ ok => opened
        /\ Log(r, Call("write", <<>>, loc[r].output_path, NoSha, ok))
        /\ Inject(fault)
        /\ files' = IF ok THEN OpenWrite(files, loc[r].output_path, PyStr(loc[r].text))
                    ELSE IF opened THEN Truncate(files, loc[r].output_path)
                    ELSE files
        /\ Exit(r, IF ok THEN 0 ELSE 1)
    /\ UNCHANGED <<loc, dirs>>
    /\ UNCHANGED_remote /\ UNCHANGED_clock

(* ---------------------------- environment ----------------------------- *)

\* The wall clock advances by one second.
Tick ==
    /\ ticks < MaxTicks
    /\ clock' = clock + 1
    /\ ticks' = ticks + 1
    /\ UNCHANGED <<faults, dirs, files, branches, pulls, pc, loc, trace, exit_code>>

\* Time passes until a sleeping run's time.sleep(60) is over.
SleepElapses ==
    /\ \E r \in Runs : pc[r] = "sleep" /\ clock < loc[r].wake /\ clock' = loc[r].wake
    /\ UNCHANGED <<ticks, faults, dirs, files, branches, pulls, pc, loc, trace, exit_code>>

\* The platform (or a maintainer) merges an open pull request: the files of
\* its head branch reach its base branch.
Merge ==
    /\ \E n \in 1..Len(pulls) :
        /\ pulls[n].state = "open"
        /\ pulls' = [pulls EXCEPT ![n].state = "merged"]
        /\ branches' = [branches EXCEPT ![pulls[n].base] = branches[pulls[n].head] @@ @]
    /\ UNCHANGED <<clock, ticks, faults, dirs, files, pc, loc, trace, exit_code>>

(* --------------------------- specification ---------------------------- *)

RunStep(r) ==
    \/ main_begin(r)
    \/ fetch_makedirs(r)
    \/ fetch_get(r)
    \/ fetch_write(r)
    \/ publish_get_repo(r)
    \/ publish_get_git_ref(r)
    \/ publish_create_git_ref(r)
    \/ publish_read_local(r)
    \/ publish_get_folder(r)
    \/ publish_create_gitkeep(r)
    \/ publish_get_file(r)
    \/ publish_update_file(r)
    \/ publish_create_file(r)
    \/ publish_create_pull(r)
    \/ publish_add_to_labels(r)
    \/ publish_auto_merge(r)
    \/ snap_get(r)
    \/ snap_exists(r)
    \/ snap_makedirs(r)
    \/ snap_write(r)

Next ==
    \/ \E r \in Runs : RunStep(r)
    \/ Tick
    \/ SleepElapses
    \/ Merge

Spec == Init /\ [][Next]_vars

(* ------------------------- reading the traces ------------------------- *)

Idx(r) == 1..Len(trace[r])
LastCall(r) == trace[r][Len(trace[r])]
AutoRuns == {r \in Runs : loc[r].script = "auto"}
SnapRuns == {r \in Runs : loc[r].script = "snap"}

RemoteOps ==
    {"get_repo", "get_git_ref", "create_git_ref", "get_contents", "create_file",
     "update_file", "create_pull", "add_to_labels", "put_auto_merge"}
ContentOps == {"create_file", "update_file"}
LocalWriteOps == {"makedirs", "write"}

\* The GET was answered with a status outside 2xx, or raised (status 0).
GetFailed(c) == c.op = "requests.get" /\ ~Success(c.status)

\* The digits of a formatted timestamp.
DigitSet == {DigitChars[i] : i \in 1..Len(DigitChars)}
Digits(str) == SelectSeq(str, LAMBDA c : c \in DigitSet)

\* The timestamp inside "data-update-<stamp>" and inside
\* "Station-Status_<stamp>.json".
BranchStamp(name) == Tail(name)
FileStamp(name) == SubSeq(name, 2, Len(name) - 1)

Named(r) == loc[r].new_branch_name # <<>>

\* Call c of run r commits, or tries to commit, the snapshot file.
FileCommit(r, c) == c.op \in ContentOps /\ c.path = loc[r].repo_file_path
GitKeepPath(r) == loc[r].repo_folder_path \o <<"/">> \o GitKeep

(* ------------------------------- C1 ----------------------------------- *)

C2_CreateOrUpdateByExistence ==
    \A r \in AutoRuns :
        LET creates == {i \in Idx(r) : trace[r][i].op = "create_file" /\ FileCommit(r, trace[r][i])}
            updates == {i \in Idx(r) : trace[r][i].op = "update_file"}
        IN  /\ pc[r] = "create_file" =>
                 loc[r].repo_file_path \notin DOMAIN branches[loc[r].new_branch_name]
            /\ updates # {} => creates = {} /\ pc[r] # "create_file"
            /\ Cardinality(creates) <= 1 /\ Cardinality(updates) <= 1
            /\ \A i \in updates : trace[r][i].sha = loc[r].contents_sha
            /\ pc[r] \in {"create_pull", "add_to_labels", "sleep"} =>
                 Cardinality(creates \cup updates) = 1

(* ------------------------------- C3 ----------------------------------- *)

\* C3 (as claimed): a failed platform call, other than a folder or file read
\* answered "not found" and other than the auto-merge request, is the run's
\* last call: the publisher returns failure and the process exits with 1.
C3_RemoteFailureFatal ==
    \A r \in AutoRuns : \A i \in Idx(r) :
        LET c == trace[r][i]
        IN  (/\ c.op \in RemoteOps \ {"put_auto_merge"}
             /\ ~c.ok
             /\ ~(c.op = "get_contents" /\ c.status = 404))
            => /\ i = Len(trace[r])
               /\ pc[r] = "exited" /\ exit_code[r] = 1
               /\ loc[r].ret_publish = "False"

(* ------------------------------- C4 ----------------------------------- *)

\* C4: a step in which the auto-merge request fails (refused, or a transport
\* exception) changes neither the pull requests nor the branches, adds only
\* the request to the run's calls, finds the pull request labeled, and ends
\* with create_branch_and_pr returning True and the process exiting with 0.
C4_AutoMergeFailureIsolated ==
    [][\A r \in Runs :
        (/\ pc[r] = "sleep" /\ pc'[r] # "sleep"
         /\ ~trace'[r][Len(trace'[r])].ok)
        => /\ pulls' = pulls /\ branches' = branches
           /\ AutoMergeLabel \in pulls[loc[r].pr].labels
           /\ pulls[loc[r].pr].head = loc[r].new_branch_name
           /\ SubSeq(trace'[r], 1, Len(trace[r])) = trace[r]
           /\ Len(trace'[r]) = Len(trace[r]) + 1
           /\ loc'[r].ret_publish = "True"
           /\ pc'[r] = "exited" /\ exit_code'[r] = 0]_vars

\* A run whose auto-merge request was refused has exited with 0, its pull
\* request open and labeled.
C4_Witness ==
    \E r \in AutoRuns :
        /\ pc[r] = "exited" /\ exit_code[r] = 0
        /\ LastCall(r).op = "put_auto_merge" /\ LastCall(r).status = 404
        /\ pulls[loc[r].pr].state = "open"
        /\ pulls[loc[r].pr].labels = {AutoMergeLabel}
        /\ ~pulls[loc[r].pr].auto_merge

(* ------------------------------- C5 ----------------------------------- *)

TokenMissing(r) == loc[r].token \in {"None", ""}

C5_ExitCodes ==
    \A r \in AutoRuns :
        /\ exit_code[r] \in {-1, 0, 1}
        /\ exit_code[r] = -1 <=> pc[r] # "exited"
        /\ pc[r] = "exited" =>
             /\ exit_code[r] = 1 <=>
                    \/ TokenMissing(r)
                    \/ loc[r].ret_fetch = "None"
                    \/ loc[r].ret_publish = "False"
             /\ exit_code[r] = 0 => loc[r].ret_fetch = "path" /\ loc[r].ret_publish = "True"
             /\ TokenMissing(r) => trace[r] = <<>>

\* The number of steps a run at this position has left, at most.
StepsLeft(label) ==
    CASE label = "init" -> 16
      [] label = "makedirs" -> 15
      [] label = "get" -> 14
      [] label = "write" -> 13
      [] label = "get_repo" -> 12
      [] label = "get_git_ref" -> 11
      [] label = "create_git_ref" -> 10
      [] label = "read_local" -> 9
      [] label = "get_folder" -> 8
      [] label = "create_gitkeep" -> 7
      [] label = "get_file" -> 6
      [] label = "update_file" -> 5
      [] label = "create_file" -> 4
      [] label = "create_pull" -> 3
      [] label = "add_to_labels" -> 2
      [] label = "sleep" -> 1
      [] label = "snap_exists" -> 3
      [] label = "snap_makedirs" -> 2
      [] label = "snap_write" -> 1
      [] label = "exited" -> 0

\* A run that has started and not exited can take a step, at once or after
\* the time of its sleep has passed.
C5_NotStuck ==
    \A r \in Runs :
        pc[r] \notin {"init", "exited"} =>
            \/ ENABLED RunStep(r)
            \/ pc[r] = "sleep" /\ ENABLED SleepElapses

\* C5: every run of main ends (it is never stuck, and each of its steps
\* brings it nearer to its exit), with exit code 0 or 1; the code is 1
\* exactly when the credential is missing, fetch_citybike_data returned None
\* or create_branch_and_pr returned False; without the credential the run
\* has made no call at all.
C5_TerminatesWithCode ==
    /\ [](C5_ExitCodes /\ C5_NotStuck)
    /\ [][\A r \in Runs :
            /\ StepsLeft(pc'[r]) <= StepsLeft(pc[r])
            /\ trace'[r] # trace[r] \/ loc'[r] # loc[r] => StepsLeft(pc'[r]) < StepsLeft(pc[r])]_vars

\* One run has ended with 0 and another with 1 for want of the credential.
C5_Witness ==
    \E r \in AutoRuns, q \in AutoRuns :
        /\ exit_code[r] = 0 /\ loc[r].ret_publish = "True"
        /\ exit_code[q] = 1 /\ TokenMissing(q)

(* ------------------------------- C6 ----------------------------------- *)

\* The snapshot file of run r has been committed by call c.
FileCommitted(r, c) == FileCommit(r, c) /\ c.ok

CreatedBranch(r) == \E i \in Idx(r) : trace[r][i].op = "create_git_ref" /\ trace[r][i].ok
RefusedBranch(r) == \E i \in Idx(r) : trace[r][i].op = "create_git_ref" /\ ~trace[r][i].ok

\* A run whose branch creation failed made no later call, committed no file,
\* opened no pull request and exited with 1.
StoppedAtBranch(r) ==
    /\ LastCall(r).op = "create_git_ref"
    /\ \A i \in Idx(r) : trace[r][i].op \notin (ContentOps \cup {"create_pull"})
    /\ pc[r] = "exited" /\ exit_code[r] = 1

WritesFile(r) ==
    /\ pc[r] \in {"write", "snap_write"}
    /\ Len(trace'[r]) = Len(trace[r]) + 1
    /\ trace'[r][Len(trace'[r])].ok

\* The text run r writes into its file.
TextOf(r) == IF loc[r].script = "snap" THEN PyStr(loc[r].text) ELSE loc[r].text

\* C8: a successful write leaves, at the path written, one file that holds
\* the text of this write and nothing else, in a directory that exists, and
\* leaves every other file as it was; the files change in no other step but
\* a write.
C8_LastWriteOnly ==
    [][/\ \A r \in Runs :
            WritesFile(r) =>
                /\ DOMAIN files' = DOMAIN files \cup {loc[r].output_path}
                /\ files'[loc[r].output_path] = <<TextOf(r)>>
                /\ \A p \in DOMAIN files \ {loc[r].output_path} : files'[p] = files[p]
                /\ Dirname(loc[r].output_path) \in dirs'
       /\ files' # files => \E r \in Runs : pc[r] \in {"write", "snap_write"} /\ pc'[r] # pc[r]
      ]_vars

\* Two runs have written different texts to one path, and the file holds the
\* text of the second.
C8_Witness ==
    \E r \in Runs, q \in Runs :
        /\ r < q /\ loc[r].output_path = loc[q].output_path
        /\ \E i \in Idx(r) : trace[r][i].op = "write" /\ trace[r][i].ok
        /\ \E i \in Idx(q) : trace[q][i].op = "write" /\ trace[q][i].ok
        /\ TextOf(r) # TextOf(q)
        /\ files[loc[q].output_path] = <<TextOf(q)>>

(* ------------------------------- C9 ----------------------------------- *)

BranchEnsured(r, c) == c.op = "create_git_ref" /\ c.ok
FolderEnsured(r, c) ==
    \/ c.op = "get_contents" /\ c.path = loc[r].repo_folder_path /\ c.ok
    \/ c.op = "create_file" /\ c.path = GitKeepPath(r) /\ c.ok
PROpened(r, c) == c.op = "create_pull" /\ c.ok
Labeled(r, c) == c.op = "add_to_labels" /\ c.ok
AutoMergeRequested(r, c) == c.op = "put_auto_merge"
PullAttempted(r, c) == c.op = "create_pull"
LabelAttempted(r, c) == c.op = "add_to_labels"

\* The positions of the calls of run r before its i-th.
Earlier(r, i) == 1..(i - 1)

\* The positions form a set of at most one.
AtMostOnce(positions) == Cardinality(positions) <= 1

\* C9: in a run's calls, the folder is read or made only on a branch the run
\* created, the file is read or committed only once the folder is there, the
\* pull request is opened only after the file was committed, labeled only
\* after it was opened, and the auto-merge request comes only after the
\* labeling and not before the time the pause ends, which is at least 60
\* seconds after the branch was named; no stage is reached twice.
C9_StageOrder ==
    \A r \in AutoRuns :
        /\ \A i \in Idx(r) :
            LET c == trace[r][i]
            IN  /\ (c.op \in {"get_contents", "create_file", "update_file"}) =>
                       \E j \in Earlier(r, i) : BranchEnsured(r, trace[r][j])
                /\ (FileCommit(r, c) \/ (c.op = "get_contents" /\ c.path = loc[r].repo_file_path)) =>
                       \E j \in Earlier(r, i) : FolderEnsured(r, trace[r][j])
                /\ c.op = "create_pull" => \E j \in Earlier(r, i) : FileCommitted(r, trace[r][j])
                /\ c.op = "add_to_labels" => \E j \in Earlier(r, i) : PROpened(r, trace[r][j])
                /\ c.op = "put_auto_merge" =>
                       /\ \E j \in Earlier(r, i) : Labeled(r, trace[r][j])
                       /\ clock >= loc[r].wake
                       /\ loc[r].wake >= loc[r].pub_now + 60
        /\ AtMostOnce({i \in Idx(r) : BranchEnsured(r, trace[r][i])})
        /\ AtMostOnce({i \in Idx(r) : FolderEnsured(r, trace[r][i])})
        /\ AtMostOnce({i \in Idx(r) : FileCommitted(r, trace[r][i])})
        /\ AtMostOnce({i \in Idx(r) : PullAttempted(r, trace[r][i])})
        /\ AtMostOnce({i \in Idx(r) : LabelAttempted(r, trace[r][i])})
        /\ AtMostOnce({i \in Idx(r) : AutoMergeRequested(r, trace[r][i])})

\* A run has gone through every stage, the auto-merge request accepted.
C9_Witness ==
    \E r \in AutoRuns :
        /\ \E i \in Idx(r) : trace[r][i].op = "put_auto_merge" /\ trace[r][i].ok
        /\ pulls[loc[r].pr].auto_merge
        /\ \E i \in Idx(r) : trace[r][i].op = "create_file" /\ trace[r][i].path = GitKeepPath(r)

(* ------------------------------- C10 ---------------------------------- *)

C10_CallsOnNewBranch ==
    \A r \in AutoRuns : \A i \in Idx(r) :
        trace[r][i].op \in ContentOps =>
            /\ trace[r][i].branch = loc[r].new_branch_name
            /\ trace[r][i].branch # loc[r].default_branch

\* C10: every placeholder creation, file creation and file update of the
\* publisher is made on the branch the run named, never on the default
\* branch, and no step of a run changes the default branch, whether the
\* step succeeds or fails; the default branch changes only in a step that
\* merges an open pull request into it.
C10_DefaultBranchUntouched ==
    /\ []C10_CallsOnNewBranch
    /\ [][/\ (\E r \in Runs : pc'[r] # pc[r]) =>
                branches'[DefaultBranch] = branches[DefaultBranch]
          /\ branches'[DefaultBranch] # branches[DefaultBranch] =>
                \E n \in 1..Len(pulls) :
                    /\ pulls[n].state = "open" /\ pulls'[n].state = "merged"
                    /\ pulls[n].base = DefaultBranch
         ]_vars

\* A run has committed the placeholder and its file on its own branch and
\* has ended, with the default branch as it was at the start.
C10_Witness ==
    \E r \in AutoRuns :
        /\ \E i \in Idx(r) : FileCommitted(r, trace[r][i])
        /\ \E i \in Idx(r) : trace[r][i].op = "create_file" /\ trace[r][i].path = GitKeepPath(r)
        /\ pc[r] = "exited"
        /\ branches[DefaultBranch] = InitialTree
        /\ DOMAIN branches[loc[r].new_branch_name] # DOMAIN InitialTree

====
